---- MODULE Spec2Model ----
(***************************************************************************)
(* Model of Exercises/Solves/cust_modules.py: clean_response(text), which  *)
(* deletes every match of the regular expression <think>.*?</think>        *)
(* (flag re.DOTALL) from text and strips the outer whitespace of the rest. *)
(* A string is a sequence of one-character strings.                        *)
(***************************************************************************)
EXTENDS Integers, Sequences, FiniteSets, TLC

VARIABLES text, pc, matches, cleaned_text, recleaned

vars == <<text, pc, matches, cleaned_text, recleaned>>

(* ------------------------------ bounds -------------------------------- *)

\* An input is the concatenation of at most MaxTokens fragments of Tokens,
\* or one of fewer fragments with an empty span put into it at any index.
MaxTokens == 4

(* --------------------------- the two markers -------------------------- *)

\* The literal that opens the pattern r"<think>.*?</think>".
OpenTag == <<"<", "t", "h", "i", "n", "k", ">">>

\* The literal that closes the pattern.
CloseTag == <<"<", "/", "t", "h", "i", "n", "k", ">">>

\* The characters str.strip() with no argument removes (ASCII part of
\* str.isspace that TLA+ strings can spell).
Whitespace == {" ", "\t", "\n", "\r", "\f"}

(* ------------------------------ inputs -------------------------------- *)

\* Fragments the inputs are built from: both markers, a lone "<", an
\* ordinary character, and three kinds of whitespace.
Tokens ==
    { OpenTag, CloseTag, <<"<">>, <<"a">>, <<" ">>, <<"\n">>, <<"\t">> }

RECURSIVE Concat(_)
Concat(ts) == IF ts = <<>> THEN <<>> ELSE Head(ts) \o Concat(Tail(ts))

\* s is made of at most n fragments.
Base(s, n) == \E k \in 0..n : \E ts \in [1..k -> Tokens] : s = Concat(ts)

\* s with x put in after its first i characters.
InsertAt(s, i, x) == SubSeq(s, 1, i) \o x \o SubSeq(s, i + 1, Len(s))

\* The span <think></think> put into s at any index, also in the middle of
\* a marker of s, which its removal then joins together again.
Spliced(s) == { InsertAt(s, i, OpenTag \o CloseTag) : i \in 0..Len(s) }

\* The inputs: the strings of at most MaxTokens fragments, and those of
\* fewer fragments with a span put in.
Inputs(s) ==
    \/ Base(s, MaxTokens)
    \/ \E k \in 0..(MaxTokens - 1) : \E ts \in [1..k -> Tokens] :
          s \in Spliced(Concat(ts))

(* --------------------------- pattern matching ------------------------- *)

\* The literal lit matches s at index i (1-based).
MatchAt(s, i, lit) ==
    /\ i >= 1
    /\ i + Len(lit) - 1 <= Len(s)
    /\ \A k \in 1..Len(lit) : s[i + k - 1] = lit[k]

\* flags=re.DOTALL: "." matches every character, the newline included.
DOTALL == TRUE

\* Variant: the call without flags=re.DOTALL, "." stops at a newline.
DotNoFlag(c) == c # "\n"

\* What "." matches: without DOTALL, everything but a newline.
Dot(c) == DOTALL \/ c # "\n"

\* Variant: the greedy ".*</think>", which runs to the last closing literal.
GreedyTail(s, j) ==
    LET cs == { q \in j..Len(s) : MatchAt(s, q, CloseTag) }
    IN  IF cs = {} THEN 0
        ELSE (CHOOSE q \in cs : \A r \in cs : q >= r) + Len(CloseTag)

\* ".*?</think>" tried from index j: the lazy quantifier tries the closing
\* literal first and only then lets "." take one more character.  The index
\* right after the match, or 0 when the pattern fails.
RECURSIVE LazyTail(_, _)
LazyTail(s, j) ==
    IF MatchAt(s, j, CloseTag) THEN j + Len(CloseTag)
    ELSE IF j > Len(s) THEN 0
    ELSE IF Dot(s[j]) THEN LazyTail(s, j + 1)
    ELSE 0

\* Variant: the pattern "<think>.*?(?:</think>|$)", whose closing literal is
\* optional, so that an unterminated opening marker matches to the end.
OptionalCloseEnd(s, i) ==
    IF ~MatchAt(s, i, OpenTag) THEN 0
    ELSE IF LazyTail(s, i + Len(OpenTag)) # 0 THEN LazyTail(s, i + Len(OpenTag))
    ELSE Len(s) + 1

\* The whole pattern tried at index i: index right after the match, or 0.
MatchEnd(s, i) ==
    IF MatchAt(s, i, OpenTag) THEN LazyTail(s, i + Len(OpenTag)) ELSE 0

\* The matches re.sub walks through: leftmost first, each search resuming
\* right after the previous match; a match is <<first index, index after>>.
RECURSIVE finditer(_, _)
finditer(s, i) ==
    IF i > Len(s) THEN <<>>
    ELSE IF MatchEnd(s, i) # 0
         THEN <<(<<i, MatchEnd(s, i)>>)>> \o finditer(s, MatchEnd(s, i))
         ELSE finditer(s, i + 1)

\* re.sub(pattern, "", s): the text between the matches, in order.
RECURSIVE Splice(_, _, _)
Splice(s, ms, from) ==
    IF ms = <<>> THEN SubSeq(s, from, Len(s))
    ELSE SubSeq(s, from, Head(ms)[1] - 1) \o Splice(s, Tail(ms), Head(ms)[2])

\* Variant: re.sub(pattern, "", s, count=1), only the first match replaced.
re_sub_first(s) ==
    IF finditer(s, 1) = <<>> THEN s
    ELSE Splice(s, <<Head(finditer(s, 1))>>, 1)

re_sub(s) == Splice(s, finditer(s, 1), 1)

(* ------------------------------ str.strip ----------------------------- *)

RECURSIVE lstrip(_)
lstrip(s) ==
    IF s # <<>> /\ Head(s) \in Whitespace THEN lstrip(Tail(s)) ELSE s

RECURSIVE rstrip(_)
rstrip(s) ==
    IF s # <<>> /\ s[Len(s)] \in Whitespace
    THEN rstrip(SubSeq(s, 1, Len(s) - 1)) ELSE s

\* Variant: .lstrip() in place of .strip().
strip_left(s) == lstrip(s)

\* Variant: a strip that reads s[0] before testing for emptiness, and so
\* raises IndexError on a string with nothing but whitespace in it.
strip_unguarded(s) ==
    IF rstrip(lstrip(s)) = <<>> THEN <<"IndexError">> ELSE rstrip(lstrip(s))

strip(s) == rstrip(lstrip(s))

(* ---------------------------- clean_response -------------------------- *)

\* Variant: strip before the substitution.
strip_then_sub(s) == re_sub(strip(s))

\* Variant: substitute and strip again until nothing changes.
RECURSIVE clean_until_stable(_)
clean_until_stable(s) ==
    IF strip(re_sub(s)) = s THEN s ELSE clean_until_stable(strip(re_sub(s)))

clean_response(s) == strip(re_sub(s))

(* ------------------------------ behaviour ----------------------------- *)

Init ==
    /\ Inputs(text)
    /\ pc = "start"
    /\ matches = <<>>
    /\ cleaned_text = <<>>
    /\ recleaned = <<>>

\* clean_response(text) is called; matches records what re.sub matched.
Call ==
    /\ pc = "start"
    /\ matches' = finditer(text, 1)
    /\ cleaned_text' = clean_response(text)
    /\ pc' = "returned"
    /\ UNCHANGED <<text, recleaned>>

\* The caller feeds the result back in: clean_response(cleaned_text).
CallAgain ==
    /\ pc = "returned"
    /\ recleaned' = clean_response(cleaned_text)
    /\ pc' = "recleaned"
    /\ UNCHANGED <<text, matches, cleaned_text>>

Next == Call \/ CallAgain

Spec == Init /\ [][Next]_vars

(* ------------------- vocabulary of the properties --------------------- *)

\* Indices of s at which an opening (closing) marker stands.
Opens(s) == { i \in 1..Len(s) : MatchAt(s, i, OpenTag) }
Closes(s) == { i \in 1..Len(s) : MatchAt(s, i, CloseTag) }

\* s holds a span: an opening marker with a closing marker at or after its end.
HasSpan(s) ==
    \E i \in Opens(s) : \E j \in Closes(s) : j >= i + Len(OpenTag)

\* s without its leading and trailing whitespace, stated by indices.
Trim(s) ==
    LET solid == { i \in 1..Len(s) : s[i] \notin Whitespace }
    IN  IF solid = {} THEN <<>>
        ELSE SubSeq(s, CHOOSE i \in solid : \A k \in solid : i <= k,
                       CHOOSE i \in solid : \A k \in solid : i >= k)

IsSuffix(a, b) ==
    /\ Len(a) <= Len(b)
    /\ SubSeq(b, Len(b) - Len(a) + 1, Len(b)) = a

\* a[i..] can be read off b[j..] left to right, skipping characters of b.
RECURSIVE Embeds(_, _, _, _)
Embeds(a, i, b, j) ==
    IF i > Len(a) THEN TRUE
    ELSE IF j > Len(b) THEN FALSE
    ELSE IF a[i] = b[j] THEN Embeds(a, i + 1, b, j + 1)
    ELSE Embeds(a, i, b, j + 1)

IsSubsequence(a, b) == Embeds(a, 1, b, 1)

\* The characters of s that lie in none of the intervals ms, from index i on.
RECURSIVE Outside(_, _, _)
Outside(s, ms, i) ==
    IF i > Len(s) THEN <<>>
    ELSE IF \E k \in 1..Len(ms) : ms[k][1] <= i /\ i < ms[k][2]
         THEN Outside(s, ms, i + 1)
         ELSE <<s[i]>> \o Outside(s, ms, i + 1)

\* The call clean_response(text) has returned.
Returned == pc = "returned"

\* The input of the join case: a span whose opening marker has a span put
\* into it after its third character:  <th<think></think>ink></think>.
JoinInput == InsertAt(OpenTag \o CloseTag, 3, OpenTag \o CloseTag)

(* ------------------------------- C1 ----------------------------------- *)

\* C1: clean_response is idempotent: cleaning the result of a call again
\* gives back that same result.
C1_Idempotent == pc = "recleaned" => recleaned = cleaned_text

(* ------------------------------- C2 ----------------------------------- *)

\* C2: the result of a call holds no span: no opening marker of the result
\* is followed, at or after its end, by a closing marker.
C2_NoSpanInOutput == Returned => ~HasSpan(cleaned_text)

(* ------------------------------- C3 ----------------------------------- *)

\* C3: for an input without a span the result is the input with only its
\* leading and trailing whitespace removed.
C3_NoSpanIsTrim == (Returned /\ ~HasSpan(text)) => cleaned_text = Trim(text)

\* A span-free input that holds both markers (the closing one first), outer
\* whitespace and interior whitespace has been cleaned.
C3_Witness ==
    /\ pc = "returned"
    /\ ~HasSpan(text)
    /\ Opens(text) # {} /\ Closes(text) # {}
    /\ text[1] \in Whitespace
    /\ \E i \in 1..Len(cleaned_text) : cleaned_text[i] \in Whitespace
    /\ cleaned_text = Trim(text)

(* ------------------------------- C4 ----------------------------------- *)

\* The interval m of s begins with an opening marker and ends with the first
\* closing marker that follows that opening marker.
ToNearestClose(s, m) ==
    /\ MatchAt(s, m[1], OpenTag)
    /\ m[2] - Len(CloseTag) >= m[1] + Len(OpenTag)
    /\ MatchAt(s, m[2] - Len(CloseTag), CloseTag)
    /\ \A q \in (m[1] + Len(OpenTag))..(m[2] - Len(CloseTag) - 1) :
          ~MatchAt(s, q, CloseTag)

\* A proper part of the interval m of s is itself a span.
HoldsSmallerSpan(s, m) ==
    \E i \in m[1]..(m[2] - 1) : \E j \in i..(m[2] - 1) :
        /\ MatchAt(s, i, OpenTag)
        /\ j >= i + Len(OpenTag)
        /\ MatchAt(s, j, CloseTag)
        /\ j + Len(CloseTag) <= m[2]
        /\ <<i, j + Len(CloseTag)>> # m

\* C4 as stated: every removed span runs from an opening marker to the first
\* closing marker after it and is minimal, holding no smaller span.
C4_MinimalSpans ==
    Returned =>
        \A k \in 1..Len(matches) :
            /\ ToNearestClose(text, matches[k])
            /\ ~HoldsSmallerSpan(text, matches[k])

\* C4 (amended): every removed span runs from an opening marker to the first
\* closing marker after it, so it holds exactly one closing marker, its last
\* characters; a smaller span inside it can only end at that same marker.
C4_NearestClose ==
    Returned =>
        \A k \in 1..Len(matches) :
            /\ ToNearestClose(text, matches[k])
            /\ \A i \in matches[k][1]..(matches[k][2] - 1) :
                  MatchAt(text, i, OpenTag) =>
                      \A j \in i..(matches[k][2] - 1) :
                          MatchAt(text, j, CloseTag) =>
                              j + Len(CloseTag) = matches[k][2]

\* A nested opening marker: the removed span holds a smaller span, and a
\* second span follows it.
C4_Witness ==
    /\ pc = "returned"
    /\ Len(matches) = 2
    /\ HoldsSmallerSpan(text, matches[1])
    /\ ToNearestClose(text, matches[1])

(* ------------------------------- C5 ----------------------------------- *)

\* The opening marker at index p of s has no closing marker after it.
Unterminated(s, p) ==
    /\ MatchAt(s, p, OpenTag)
    /\ \A q \in p..Len(s) : ~MatchAt(s, q, CloseTag)

\* C5: an opening marker with no closing marker after it stays: the result
\* ends with that marker and all the text after it, trailing whitespace apart.
C5_UnterminatedKept ==
    Returned =>
        \A p \in 1..Len(text) :
            Unterminated(text, p) =>
                IsSuffix(Trim(SubSeq(text, p, Len(text))), cleaned_text)

\* An unterminated opening marker follows a removed span and is followed by
\* text and trailing whitespace.
C5_Witness ==
    /\ pc = "returned"
    /\ matches # <<>>
    /\ \E p \in 1..Len(text) :
          /\ Unterminated(text, p)
          /\ p + Len(OpenTag) < Len(text)
          /\ text[Len(text)] \in Whitespace
          /\ cleaned_text = SubSeq(text, p, Len(text) - 1)

(* ------------------------------- C6 ----------------------------------- *)

\* Reads s from index i on as  t0 S1 t1 ... Sk tk : each t free of "<", each
\* S an opening marker, a body with neither marker, and a closing marker.
\* ok: s has that form; rest: t0 t1 ... tk; spans: k.
RECURSIVE ReadForm(_, _)
ReadForm(s, i) ==
    IF i > Len(s) THEN [ok |-> TRUE, rest |-> <<>>, spans |-> 0]
    ELSE IF MatchAt(s, i, OpenTag)
    THEN LET after == { q \in Closes(s) : q >= i + Len(OpenTag) }
             close == CHOOSE q \in after : \A r \in after : q <= r
         IN  IF after = {} \/ \E o \in Opens(s) : i < o /\ o < close
             THEN [ok |-> FALSE, rest |-> <<>>, spans |-> 0]
             ELSE [ReadForm(s, close + Len(CloseTag)) EXCEPT !.spans = @ + 1]
    ELSE IF s[i] = "<" THEN [ok |-> FALSE, rest |-> <<>>, spans |-> 0]
    ELSE [ReadForm(s, i + 1) EXCEPT !.rest = <<s[i]>> \o @]

\* C6: removal is global and keeps the order: for an input t0 S1 t1 ... Sk tk
\* all k spans are removed and the result is trim(t0 t1 ... tk).
C6_GlobalInOrder ==
    (Returned /\ ReadForm(text, 1).ok) =>
        /\ Len(matches) = ReadForm(text, 1).spans
        /\ cleaned_text = Trim(ReadForm(text, 1).rest)

\* Two spans with text between them have been removed.
C6_Witness ==
    /\ pc = "returned"
    /\ ReadForm(text, 1).ok
    /\ ReadForm(text, 1).spans = 2
    /\ matches[1][2] < matches[2][1]
    /\ cleaned_text = SubSeq(text, matches[1][2], matches[2][1] - 1)

(* ------------------------------- C7 ----------------------------------- *)

\* Index p of s lies in the body of a span whose body holds neither marker.
InBody(s, p) ==
    \E b \in Opens(s) : \E q \in Closes(s) :
        /\ b + Len(OpenTag) <= p /\ p < q
        /\ \A o \in Opens(s) : ~(b < o /\ o < q)
        /\ \A r \in Closes(s) : ~(b < r /\ r < q)

\* s with every newline of such a body replaced by the ordinary character a.
NoBodyNewline(s) ==
    [p \in 1..Len(s) |-> IF s[p] = "\n" /\ InBody(s, p) THEN "a" ELSE s[p]]

\* C7: a newline in the body of a span does not stop the match: the result
\* is that of the input whose body newlines are ordinary characters.
C7_NewlineInBody ==
    Returned => cleaned_text = clean_response(NoBodyNewline(text))

\* Text, then a span with a newline in its body: the span is gone and the
\* text before it is the result.
C7_Witness ==
    /\ pc = "returned"
    /\ \E p \in 1..Len(text) : text[p] = "\n" /\ InBody(text, p)
    /\ Len(matches) = 1
    /\ matches[1][1] > 1
    /\ matches[1][2] = Len(text) + 1
    /\ cleaned_text = SubSeq(text, 1, matches[1][1] - 1)

(* ------------------------------- C8 ----------------------------------- *)

\* The characters an input can hold.
Chars == UNION { { t[i] : i \in 1..Len(t) } : t \in Tokens }

\* C8: the call returns a string for every input, and the empty string for
\* the empty input.
C8_Total ==
    Returned =>
        /\ DOMAIN cleaned_text = 1..Len(cleaned_text)
        /\ \A i \in 1..Len(cleaned_text) : cleaned_text[i] \in Chars
        /\ text = <<>> => cleaned_text = <<>>

\* The call has returned for the empty input.
C8_Witness == pc = "returned" /\ text = <<>> /\ cleaned_text = <<>>

(* ------------------------------- C9 ----------------------------------- *)

\* C9: the result neither begins nor ends with a space, tab or newline, also
\* when a removed span stood between that whitespace and the end of the
\* input; the whitespace inside what is left of the input is kept.
C9_TrimAfterRemoval ==
    Returned =>
        /\ cleaned_text # <<>> =>
              /\ cleaned_text[1] \notin {" ", "\t", "\n"}
              /\ cleaned_text[Len(cleaned_text)] \notin {" ", "\t", "\n"}
        /\ cleaned_text = Trim(Outside(text, matches, 1))

\* The input begins with a span that whitespace follows, so that the
\* whitespace is outermost only once the span is gone; text is left of it.
C9_Witness ==
    /\ pc = "returned"
    /\ matches # <<>>
    /\ matches[1][1] = 1
    /\ matches[1][2] <= Len(text)
    /\ text[matches[1][2]] \in Whitespace
    /\ text[Len(text)] \in Whitespace
    /\ cleaned_text # <<>>

(* ------------------------------- C10 ---------------------------------- *)

\* The closing marker at index q of s has no unconsumed opening marker
\* before it: each opening marker before it has an earlier closing marker.
Orphan(s, q) ==
    /\ MatchAt(s, q, CloseTag)
    /\ \A o \in Opens(s) :
          o < q => \E r \in Closes(s) : o + Len(OpenTag) <= r /\ r < q

\* C10: one pass over the original input: the matches are spans of the input,
\* in order and disjoint, and an opening marker of the input outside them
\* has no closing marker after it; the result is a subsequence of the input;
\* and every closing marker without an unconsumed opening marker before it
\* is kept, also when the removal joins an opening marker together in front
\* of it.
C10_SinglePass ==
    Returned =>
        /\ \A k \in 1..Len(matches) : ToNearestClose(text, matches[k])
        /\ \A k \in 1..(Len(matches) - 1) : matches[k][2] <= matches[k + 1][1]
        /\ \A o \in Opens(text) :
              \/ \E k \in 1..Len(matches) :
                    matches[k][1] <= o /\ o < matches[k][2]
              \/ Unterminated(text, o)
        /\ IsSubsequence(cleaned_text, text)
        /\ Len(cleaned_text) <= Len(text)
        /\ Cardinality(Closes(cleaned_text)) >=
              Cardinality({ q \in 1..Len(text) : Orphan(text, q) })

\* The join case: the removal puts <th and ink> together in front of a
\* closing marker, and the span so formed is in the result.
C10_Witness ==
    /\ pc = "returned"
    /\ text = JoinInput
    /\ cleaned_text = OpenTag \o CloseTag

====
